---- MODULE Spec2Model ----
(***************************************************************************)
(* Model of the syscall-table generator of rust-vmm-ci:                    *)
(*   scripts/lib/syscall.py   generate_syscall_table, generate_rust_code   *)
(*   scripts/rustvmm_gen.py   MAP_RUST_ARCH, generate_syscall_command      *)
(*                                                                         *)
(* A text is a sequence of one-character strings; a file is a sequence of  *)
(* lines; a path is a sequence of components, each component a sequence of *)
(* string fragments whose concatenation is the component's name.           *)
(*                                                                         *)
(* Two specifications:                                                     *)
(*   SpecTable  generate_syscall_table applied to header files drawn from  *)
(*              bounded sets, one call after the other;                    *)
(*   Spec       one invocation of generate_syscall_command, step by step.  *)
(***************************************************************************)
EXTENDS Integers, Sequences, FiniteSets, TLC

VARIABLES
    pc,               \* position of the program
    arch,             \* args.arch
    src_dir,          \* rustvmm_gen.py:49  src_dir
    header_path,      \* rustvmm_gen.py:52  header_path
    output_file_path, \* rustvmm_gen.py:61  output_file_path
    syscalls,         \* syscall.py:12      the list of (name, num) tuples
    syscalls_str,     \* rustvmm_gen.py:55  the string generate_syscall_table returned
    raised,           \* the exception that left the running function, if any
    disk,             \* the file system: path -> file state
    map_rust_arch,    \* rustvmm_gen.py:22  MAP_RUST_ARCH (a module-level dict)
    trace,            \* the steps the current invocation has run, with their outcomes
    stdout,           \* what print() has written
    todo,             \* SpecTable: the paths still to be handed to generate_syscall_table
    returned          \* SpecTable: what each finished call was given and gave back

vars == <<pc, arch, src_dir, header_path, output_file_path, syscalls, syscalls_str,
          raised, disk, map_rust_arch, trace, stdout, todo, returned>>

----------------------------------------------------------------------------
(* Bounds of the model. *)

\* longest tail, in characters, of the single-line headers of SpecTable
MaxTail == 4
\* most lines of the several-line headers of SpecTable
MaxLines == 3
\* most successive calls of generate_syscall_table in SpecTable
MaxCalls == 3
\* most lines of a header file in Spec
MaxPipeLines == 2

----------------------------------------------------------------------------
(* Characters. *)

\* the printable ASCII characters in code-point order, from 32 (space) on; the
\* grave accent (96), which the TLA+ lexer cannot read in a string, is a placeholder
Ascii ==
    <<" ", "!", "\"", "#", "$", "%", "&", "'", "(", ")", "*", "+", ",", "-", ".", "/",
      "0", "1", "2", "3", "4", "5", "6", "7", "8", "9", ":", ";", "<", "=", ">", "?",
      "@", "A", "B", "C", "D", "E", "F", "G", "H", "I", "J", "K", "L", "M", "N", "O",
      "P", "Q", "R", "S", "T", "U", "V", "W", "X", "Y", "Z", "[", "\\", "]", "^", "_",
      "<96>", "a", "b", "c", "d", "e", "f", "g", "h", "i", "j", "k", "l", "m", "n", "o",
      "p", "q", "r", "s", "t", "u", "v", "w", "x", "y", "z", "{", "|", "}", "~">>

\* ord(c)
CodePoint(c) == 31 + (CHOOSE i \in DOMAIN Ascii : Ascii[i] = c)

Digits == <<"0", "1", "2", "3", "4", "5", "6", "7", "8", "9">>

\* str.isspace / the regular expression class \s
IsSpace(c) == c \in {" ", "\t", "\n", "\r", "\f"}

\* the regular expression class \d
IsDigit(c) == \E i \in DOMAIN Digits : Digits[i] = c

\* the regular expression class \w
IsWord(c) ==
    \/ IsDigit(c)
    \/ c = "_"
    \/ c \in {"a", "b", "c", "d", "e", "f", "g", "h", "i", "j", "k", "l", "m",
              "n", "o", "p", "q", "r", "s", "t", "u", "v", "w", "x", "y", "z"}
    \/ c \in {"A", "B", "C", "D", "E", "F", "G", "H", "I", "J", "K", "L", "M",
              "N", "O", "P", "Q", "R", "S", "T", "U", "V", "W", "X", "Y", "Z"}

InClass(c, cls) ==
    CASE cls = "w" -> IsWord(c)
      [] cls = "s" -> IsSpace(c)
      [] cls = "d" -> IsDigit(c)

\* the literal #define __NR_ of syscall.py:17 and of the pattern of syscall.py:13
Prefix == <<"#", "d", "e", "f", "i", "n", "e", " ", "_", "_", "N", "R", "_">>

----------------------------------------------------------------------------
(* generate_syscall_table: the text operations. *)

RECURSIVE LStrip(_)
LStrip(s) == IF s # <<>> /\ IsSpace(Head(s)) THEN LStrip(Tail(s)) ELSE s

RECURSIVE RStrip(_)
RStrip(s) ==
    IF s # <<>> /\ IsSpace(s[Len(s)]) THEN RStrip(SubSeq(s, 1, Len(s) - 1)) ELSE s

\* line.strip()
Strip(line) == RStrip(LStrip(line))

\* str.startswith
StartsWith(s, p) == Len(s) >= Len(p) /\ SubSeq(s, 1, Len(p)) = p

\* the index after the longest run of characters of class cls that starts at i
RECURSIVE RunEnd(_, _, _)
RunEnd(s, i, cls) ==
    IF i <= Len(s) /\ InClass(s[i], cls) THEN RunEnd(s, i + 1, cls) ELSE i

\* a mutant of PatternMatch: a define without a number counts as number 0
PatternMatchNoNumber(line) ==
    LET p == Len(Prefix) + 1
        n == RunEnd(line, p, "w")
        s == RunEnd(line, n, "s")
        d == RunEnd(line, s, "d")
    IN  IF StartsWith(line, Prefix) /\ n > p
        THEN <<SubSeq(line, p, n - 1), IF d > s THEN SubSeq(line, s, d - 1) ELSE <<"0">>>>
        ELSE <<>>

\* a mutant of PatternMatch: the pattern ends with $
PatternMatchAnchored(line) ==
    LET p == Len(Prefix) + 1
        n == RunEnd(line, p, "w")
        s == RunEnd(line, n, "s")
        d == RunEnd(line, s, "d")
    IN  IF StartsWith(line, Prefix) /\ n > p /\ s > n /\ d > s /\ d = Len(line) + 1
        THEN <<SubSeq(line, p, n - 1), SubSeq(line, s, d - 1)>>
        ELSE <<>>

\* pattern.match(line) for the pattern ^#define __NR_(\w+)\s+(\d+) of syscall.py:13:
\* <<group 1, group 2>>, or
\* <<>> for None. Each of \w+, \s+, \d+ is greedy and what follows it cannot start
\* with a character of its class, so each takes the longest run; nothing anchors
\* the end of the line.
PatternMatch(line) ==
    LET p == Len(Prefix) + 1
        n == RunEnd(line, p, "w")
        s == RunEnd(line, n, "s")
        d == RunEnd(line, s, "d")
    IN  IF StartsWith(line, Prefix) /\ n > p /\ s > n /\ d > s
        THEN <<SubSeq(line, p, n - 1), SubSeq(line, s, d - 1)>>
        ELSE <<>>

DigitValue(c) == (CHOOSE i \in DOMAIN Digits : Digits[i] = c) - 1

\* int(text) of a text of decimal digits
RECURSIVE ParseInt(_)
ParseInt(ds) ==
    IF ds = <<>> THEN 0
    ELSE 10 * ParseInt(SubSeq(ds, 1, Len(ds) - 1)) + DigitValue(ds[Len(ds)])

\* str(n) of a non-negative int, as the f-string formats num
RECURSIVE IntToStr(_)
IntToStr(n) ==
    IF n < 10 THEN <<Digits[n + 1]>> ELSE IntToStr(n \div 10) \o <<Digits[(n % 10) + 1]>>

\* the body of the loop of syscall.py:15-22 for one line: the list after the line
ParseLine(list, line0) ==
    LET line == Strip(line0)
    IN  IF StartsWith(line, Prefix)
        THEN LET match == PatternMatch(line)
             IN  IF match # <<>>
                 THEN Append(list, <<match[1], ParseInt(match[2])>>)
                 ELSE list
        ELSE list

\* the loop of syscall.py:15-22
RECURSIVE ParseLines(_, _)
ParseLines(list, lines) ==
    IF lines = <<>> THEN list ELSE ParseLines(ParseLine(list, Head(lines)), Tail(lines))

\* a < b for Python strings: by code point, a proper prefix first
RECURSIVE StrLess(_, _)
StrLess(a, b) ==
    IF b = <<>> THEN FALSE
    ELSE IF a = <<>> THEN TRUE
    ELSE IF Head(a) # Head(b) THEN CodePoint(Head(a)) < CodePoint(Head(b))
    ELSE StrLess(Tail(a), Tail(b))

\* e put into the sorted list s behind every element whose key is not greater
RECURSIVE Insert(_, _)
Insert(s, e) ==
    IF s = <<>> THEN <<e>>
    ELSE IF StrLess(e[1], Head(s)[1]) THEN <<e>> \o s
    ELSE <<Head(s)>> \o Insert(Tail(s), e)

RECURSIVE InsertionSort(_, _)
InsertionSort(done, rest) ==
    IF rest = <<>> THEN done ELSE InsertionSort(Insert(done, Head(rest)), Tail(rest))

\* e put into the sorted list s before every element whose key is not smaller
RECURSIVE InsertBefore(_, _)
InsertBefore(s, e) ==
    IF s = <<>> THEN <<e>>
    ELSE IF StrLess(Head(s)[1], e[1]) THEN <<Head(s)>> \o InsertBefore(Tail(s), e)
    ELSE <<e>> \o s

RECURSIVE UnstableSort(_, _)
UnstableSort(done, rest) ==
    IF rest = <<>> THEN done ELSE UnstableSort(InsertBefore(done, Head(rest)), Tail(rest))

\* a mutant of SortSyscalls: the list is left in the order of the lines
SortSyscallsMissing(list) == list

\* a mutant of SortSyscalls: a sort that does not keep the order of equal names
SortSyscallsUnstable(list) == UnstableSort(<<>>, list)

\* syscalls.sort(key=lambda x: x[0]): list.sort is stable
SortSyscalls(list) == InsertionSort(<<>>, list)

\* the f-string of syscall.py:26: ( quote name quote , space num ) ,
EntryLiteral(e) == <<"(", "\"">> \o e[1] \o <<"\"", ",", " ">> \o IntToStr(e[2]) \o <<")", ",">>

\* str.join with a single space as separator
RECURSIVE JoinSpace(_)
JoinSpace(texts) ==
    IF texts = <<>> THEN <<>>
    ELSE IF Len(texts) = 1 THEN texts[1]
    ELSE texts[1] \o <<" ">> \o JoinSpace(Tail(texts))

\* syscall.py:26-27
Render(list) == JoinSpace([i \in DOMAIN list |-> EntryLiteral(list[i])])

----------------------------------------------------------------------------
(* Files, exceptions and return values. *)

\* a file system entry. kind: missing (nothing at the path), file, isdir (a
\* directory), noperm (a file the process may not open), rodir (a directory the
\* process may not write into); data: the lines of a file; readerr: what reading the
\* file runs into (none, eio: an I/O error, decode: bytes that are no text);
\* fmt: whether rustfmt has rewritten the file
Entry(kind, data, readerr) == [kind |-> kind, data |-> data, readerr |-> readerr, fmt |-> FALSE]

Missing == Entry("missing", <<>>, "none")

HeaderFile(data) == Entry("file", data, "none")

\* an exception: its class, the text and the path of its message, and the text of
\* the exception it wraps
Exception(type, text, path, cause) == [type |-> type, text |-> text, path |-> path, cause |-> cause]

NoException == Exception("none", "", <<>>, "")

\* what a function returned: a string, or nothing when an exception left it
StrValue(text) == [returned |-> TRUE, text |-> text]

NoValue == [returned |-> FALSE, text |-> <<>>]

\* the class of the exception open(path, "r") raises on the entry, or none
OpenRead(entry) ==
    CASE entry.kind = "missing" -> "FileNotFoundError"
      [] entry.kind = "isdir"   -> "IsADirectoryError"
      [] entry.kind = "rodir"   -> "IsADirectoryError"
      [] entry.kind = "noperm"  -> "PermissionError"
      [] OTHER                  -> "none"

\* the class of the exception iterating over the opened file raises, or none
ReadLines(entry) ==
    CASE entry.readerr = "eio"    -> "OSError"
      [] entry.readerr = "decode" -> "UnicodeDecodeError"
      [] OTHER                    -> "none"

\* str(e) of an exception of the class
ExcStr(type) ==
    CASE type = "FileNotFoundError"  -> "[Errno 2] No such file or directory"
      [] type = "IsADirectoryError"  -> "[Errno 21] Is a directory"
      [] type = "PermissionError"    -> "[Errno 13] Permission denied"
      [] type = "OSError"            -> "[Errno 5] Input/output error"
      [] type = "UnicodeDecodeError" -> "codec can't decode byte"
      [] type = "FileExistsError"    -> "[Errno 17] File exists"
      [] type = "NoSpaceError"       -> "[Errno 28] No space left on device"
      [] OTHER                       -> type

----------------------------------------------------------------------------
(* generate_syscall_table, syscall.py:8-32. *)

\* a mutant of TableException: every failure is the generic one
TableExceptionGeneric(type, file_path) ==
    Exception("RuntimeError", "File processing failed: ", <<>>, ExcStr(type))

\* the except clauses of syscall.py:29-32
TableException(type, file_path) ==
    IF type = "FileNotFoundError"
    THEN Exception("RuntimeError", "Header file not found: ", file_path, "")
    ELSE Exception("RuntimeError", "File processing failed: ", <<>>, ExcStr(type))

\* a mutant of EmptySyscalls: the list of the call before is used again
StaleSyscalls == syscalls

\* syscalls = [] of syscall.py:12
EmptySyscalls == <<>>

\* syscall.py:11-22: the list the loop builds, or the exception that ends it
ParseHeader(file_path, fs) ==
    LET entry == fs[file_path]
        failure == IF OpenRead(entry) # "none" THEN OpenRead(entry) ELSE ReadLines(entry)
    IN  IF failure = "none"
        THEN [list |-> ParseLines(EmptySyscalls, entry.data), exc |-> NoException]
        ELSE [list |-> <<>>, exc |-> TableException(failure, file_path)]

\* syscall.py:24-27
Serialize(list) == Render(SortSyscalls(list))

\* generate_syscall_table(file_path) on the file system fs: the sorted list, the
\* value returned and the exception raised
GenerateSyscallTable(file_path, fs) ==
    LET parsed == ParseHeader(file_path, fs)
    IN  IF parsed.exc = NoException
        THEN [list |-> SortSyscalls(parsed.list),
              ret  |-> StrValue(Serialize(parsed.list)),
              exc  |-> NoException]
        ELSE [list |-> <<>>, ret |-> NoValue, exc |-> parsed.exc]

----------------------------------------------------------------------------
(* SpecTable: generate_syscall_table on header files drawn from bounded sets. *)

SeqsUpTo(S, n) == UNION {[1..k -> S] : k \in 0..n}

\* the characters that follow the head of a single-line header
TailAlphabet == {"a", "0", "1", " ", "("}

\* the heads of the single-line headers: the prefix, and the prefix behind a space
RichHeads == {Prefix, <<" ">> \o Prefix}

RichLines == {h \o t : h \in RichHeads, t \in SeqsUpTo(TailAlphabet, MaxTail)}

DefineLine(name, digits) == Prefix \o name \o <<" ">> \o digits

\* the lines of the several-line headers: defines of three names and two numbers,
\* a define without a number, and a define of another macro (the prefix without
\* its last character, then a name and a number)
TableLines ==
    {DefineLine(n, d) : n \in {<<"a">>, <<"B">>, <<"a", "B">>}, d \in {<<"0">>, <<"1">>}}
    \cup {Prefix \o <<"b", "a", "d">>,
          SubSeq(Prefix, 1, Len(Prefix) - 1) \o <<"a", " ", "1">>}

\* the entries at which a call fails: nothing, a directory, a file that may not
\* be opened, a file whose reading fails on an I/O error or on bytes that are no text
FailingFiles ==
    {Missing, Entry("isdir", <<>>, "none"), Entry("noperm", <<>>, "none"),
     Entry("file", <<DefineLine(<<"a">>, <<"1">>)>>, "eio"),
     Entry("file", <<DefineLine(<<"a">>, <<"1">>)>>, "decode")}

\* the entries handed to successive calls
CallFiles ==
    {Missing,
     Entry("isdir", <<>>, "none"),
     Entry("file", <<DefineLine(<<"a">>, <<"1">>)>>, "eio"),
     HeaderFile(<<DefineLine(<<"a">>, <<"1">>)>>),
     HeaderFile(<<DefineLine(<<"B">>, <<"0">>), DefineLine(<<"a">>, <<"1">>)>>)}

\* what the calls of one behaviour are given: one header of one line, one header
\* of several lines, one failing entry, or several entries one after the other
TableInputs ==
    {<<HeaderFile(<<l>>)>> : l \in RichLines}
    \cup {<<HeaderFile(d)>> : d \in SeqsUpTo(TableLines, MaxLines)}
    \cup {<<f>> : f \in FailingFiles}
    \cup {fs \in SeqsUpTo(CallFiles, MaxCalls) : Len(fs) >= 2}

\* the path of the i-th header file
TablePath(i) == <<<<"headers">>, IntToStr(i) \o <<".h">>>>

InitTable ==
    \E files \in TableInputs :
        /\ disk = [p \in {TablePath(i) : i \in DOMAIN files} |->
                      files[CHOOSE i \in DOMAIN files : TablePath(i) = p]]
        /\ todo = [i \in DOMAIN files |-> TablePath(i)]
        /\ returned = <<>>
        /\ pc = "idle"
        /\ arch = ""
        /\ src_dir = <<>>
        /\ header_path = <<>>
        /\ output_file_path = <<>>
        /\ syscalls = <<>>
        /\ syscalls_str = NoValue
        /\ raised = NoException
        /\ map_rust_arch = <<>>
        /\ trace = <<>>
        /\ stdout = <<>>

\* one call of generate_syscall_table, on the next path
TableCall ==
    /\ todo # <<>>
    /\ LET r == GenerateSyscallTable(Head(todo), disk)
       IN  /\ syscalls' = r.list
           /\ syscalls_str' = r.ret
           /\ raised' = r.exc
           /\ returned' = Append(returned,
                  [path |-> Head(todo), entry |-> disk[Head(todo)], ret |-> r.ret, exc |-> r.exc])
    /\ todo' = Tail(todo)
    /\ UNCHANGED <<pc, arch, src_dir, header_path, output_file_path, disk,
                   map_rust_arch, trace, stdout>>

NextTable == TableCall

SpecTable == InitTable /\ [][NextTable]_vars

----------------------------------------------------------------------------
(* What the claims about generate_syscall_table speak of, stated without the      *)
(* operators above: trimming, the shape of a defining line, the value of a        *)
(* decimal numeral, the order of names, the rendering.                            *)

\* the line without its leading and trailing whitespace
Trimmed(line) ==
    LET I == {i \in DOMAIN line : ~IsSpace(line[i])}
    IN  IF I = {} THEN <<>>
        ELSE SubSeq(line, CHOOSE i \in I : \A j \in I : i <= j,
                          CHOOSE i \in I : \A j \in I : j <= i)

HasSyscallPrefix(t) == Len(t) >= Len(Prefix) /\ \A i \in DOMAIN Prefix : t[i] = Prefix[i]

\* t is the prefix, a name of n word characters, w whitespace characters and d
\* digits, followed by the end of the line or by a character that is no digit
Shape(t, n, w, d) ==
    LET a == Len(Prefix)
    IN  /\ Len(t) >= a + n + w + d
        /\ HasSyscallPrefix(t)
        /\ \A i \in (a + 1)..(a + n) : IsWord(t[i])
        /\ \A i \in (a + n + 1)..(a + n + w) : IsSpace(t[i])
        /\ \A i \in (a + n + w + 1)..(a + n + w + d) : IsDigit(t[i])
        /\ Len(t) > a + n + w + d => ~IsDigit(t[a + n + w + d + 1])

Splits(t) ==
    LET r == 1..(Len(t) - Len(Prefix) - 2)
    IN  {x \in r \X r \X r : Shape(t, x[1], x[2], x[3])}

\* the same, with the digits as the last characters of the line
AnchoredSplits(t) == {x \in Splits(t) : Len(Prefix) + x[1] + x[2] + x[3] = Len(t)}

Pow10(k) == CASE k = 0 -> 1 [] k = 1 -> 10 [] k = 2 -> 100 [] k = 3 -> 1000
              [] k = 4 -> 10000 [] k = 5 -> 100000 [] k = 6 -> 1000000

RECURSIVE WeightedSum(_, _)
WeightedSum(ds, i) ==
    IF i > Len(ds) THEN 0
    ELSE (CASE ds[i] = "0" -> 0 [] ds[i] = "1" -> 1 [] ds[i] = "2" -> 2 [] ds[i] = "3" -> 3
            [] ds[i] = "4" -> 4 [] ds[i] = "5" -> 5 [] ds[i] = "6" -> 6 [] ds[i] = "7" -> 7
            [] ds[i] = "8" -> 8 [] ds[i] = "9" -> 9) * Pow10(Len(ds) - i)
         + WeightedSum(ds, i + 1)

\* the value of a decimal numeral
DecimalValue(ds) == WeightedSum(ds, 1)

\* the (name, number) a split of the trimmed line stands for
SplitEntry(t, x) ==
    LET a == Len(Prefix)
    IN  <<SubSeq(t, a + 1, a + x[1]),
          DecimalValue(SubSeq(t, a + x[1] + x[2] + 1, a + x[1] + x[2] + x[3]))>>

\* the line defines a syscall number
DefinesSyscall(line) == Splits(Trimmed(line)) # {}

DefinedEntry(line) ==
    LET t == Trimmed(line) IN SplitEntry(t, CHOOSE x \in Splits(t) : TRUE)

\* the entries of the defining lines of a header, in the order of the lines
RECURSIVE ExpectedEntries(_)
ExpectedEntries(data) ==
    IF data = <<>> THEN <<>>
    ELSE (IF DefinesSyscall(Head(data)) THEN <<DefinedEntry(Head(data))>> ELSE <<>>)
         \o ExpectedEntries(Tail(data))

Count(seq, e) == Cardinality({i \in DOMAIN seq : seq[i] = e})

\* A and B hold the same entries, each as often
SameEntries(A, B) ==
    /\ Len(A) = Len(B)
    /\ \A i \in DOMAIN A : Count(A, A[i]) = Count(B, A[i])

\* name a comes before name b: a is a proper prefix of b, or at the first place
\* where they differ a has the smaller code point
NameBefore(a, b) ==
    \E k \in 0..Len(a) :
        /\ k <= Len(b)
        /\ \A i \in 1..k : a[i] = b[i]
        /\ \/ k = Len(a) /\ k < Len(b)
           \/ k < Len(a) /\ k < Len(b) /\ CodePoint(a[k + 1]) < CodePoint(b[k + 1])

Ascending(E) == \A i, j \in DOMAIN E : i < j => ~NameBefore(E[j][1], E[i][1])

WithName(E, nm) == SelectSeq(E, LAMBDA e : e[1] = nm)

\* the text of a table: each entry as ("name", number), followed by a comma, the
\* entries one space apart
RECURSIVE ExpectedText(_)
ExpectedText(E) ==
    IF E = <<>> THEN <<>>
    ELSE <<"(", "\"">> \o E[1][1] \o <<"\"", ",", " ">> \o IntToStr(E[1][2]) \o <<")", ",">>
         \o (IF Len(E) > 1 THEN <<" ">> \o ExpectedText(Tail(E)) ELSE <<>>)

\* the entry is a file that can be read in full
ReadInFull(entry) == entry.kind = "file" /\ entry.readerr = "none"

\* the last finished call of generate_syscall_table
LastCall == returned[Len(returned)]

\* a call has finished, on a header that could be read in full
TableReturned == returned # <<>> /\ ReadInFull(LastCall.entry)

\* the lines of the header of the last call
LastData == LastCall.entry.data

----------------------------------------------------------------------------
(* The claims about generate_syscall_table, checked under SpecTable. *)

\* C1: for a header that can be read in full, the call returns the rendering of
\* exactly one (name, number) entry per defining line and of no other entry, the
\* entries in ascending order of their names (by code point, case-sensitive).
C1_OneEntryPerDefineSortedByName ==
    TableReturned =>
        LET E == ExpectedEntries(LastData)
        IN  /\ raised = NoException
            /\ syscalls_str.returned
            /\ SameEntries(syscalls, E)
            /\ Ascending(syscalls)
            /\ syscalls_str.text = ExpectedText(syscalls)

\* C1's case: a header with two defining lines whose names are out of order, and a
\* line that defines nothing
C1_Witness ==
    /\ TableReturned
    /\ \E i, j \in DOMAIN LastData :
          /\ i < j
          /\ DefinesSyscall(LastData[i])
          /\ DefinesSyscall(LastData[j])
          /\ NameBefore(DefinedEntry(LastData[j])[1], DefinedEntry(LastData[i])[1])
    /\ \E k \in DOMAIN LastData : ~DefinesSyscall(LastData[k])

\* with line i removed
RemoveAt(data, i) == SubSeq(data, 1, i - 1) \o SubSeq(data, i + 1, Len(data))

\* with the line put behind line i
InsertAt(data, i, line) == SubSeq(data, 1, i) \o <<line>> \o SubSeq(data, i + 1, Len(data))

\* the line lacks the prefix, or has it and is malformed
ProducesNoEntry(line) == ~HasSyscallPrefix(Trimmed(line)) \/ ~DefinesSyscall(line)

\* lines to add: a blank line, a comment, a define of another macro, defines
\* without a number
InertLines ==
    {<<>>,
     <<"/", "/", " ", "a", " ", "1">>,
     SubSeq(Prefix, 1, Len(Prefix) - 1) \o <<"a", " ", "1">>,
     Prefix \o <<"b", "a", "d">>,
     Prefix \o <<"B", " ">>}

\* generate_syscall_table on the header of the last call with its lines replaced
TableOf(data) ==
    GenerateSyscallTable(LastCall.path, [disk EXCEPT ![LastCall.path] = HeaderFile(data)])

\* C2: removing from a header, or adding to it, a line that lacks the prefix or
\* is prefixed and malformed leaves the returned string as it is, and no error is
\* raised with or without the line.
C2_InertLinesChangeNothing ==
    TableReturned =>
        /\ raised = NoException
        /\ \A i \in DOMAIN LastData :
              ProducesNoEntry(LastData[i]) =>
                  /\ TableOf(RemoveAt(LastData, i)).ret = syscalls_str
                  /\ TableOf(RemoveAt(LastData, i)).exc = NoException
        /\ \A l \in InertLines : \A i \in 0..Len(LastData) :
              /\ TableOf(InsertAt(LastData, i, l)).ret = syscalls_str
              /\ TableOf(InsertAt(LastData, i, l)).exc = NoException

\* C2's case: a header with entries, a prefixed line without number and a line
\* without the prefix
C2_Witness ==
    /\ TableReturned
    /\ syscalls # <<>>
    /\ \E i, j \in DOMAIN LastData :
          /\ HasSyscallPrefix(Trimmed(LastData[i])) /\ ~DefinesSyscall(LastData[i])
          /\ ~HasSyscallPrefix(Trimmed(LastData[j]))

\* C3: a call on a path where nothing is fails with the error Header file not
\* found: <path>; a call that fails to open or to read what is there fails with
\* the error File processing failed: <cause>; neither returns a string.
C3_NotFoundAndReadFailure ==
    \A i \in DOMAIN returned :
        LET c == returned[i]
        IN  /\ c.entry.kind = "missing" =>
                  /\ c.exc = Exception("RuntimeError", "Header file not found: ", c.path, "")
                  /\ c.ret = NoValue
            /\ (c.entry.kind # "missing" /\ ~ReadInFull(c.entry)) =>
                  /\ c.exc.type = "RuntimeError"
                  /\ c.exc.text = "File processing failed: "
                  /\ c.exc.cause # ""
                  /\ c.ret = NoValue
            /\ i = Len(returned) => syscalls_str = c.ret /\ raised = c.exc

\* C3's case: calls on a missing path, on a directory and on a file whose reading
\* fails, one after the other
C3_Witness ==
    /\ \E i \in DOMAIN returned : returned[i].entry.kind = "missing"
    /\ \E i \in DOMAIN returned : returned[i].entry.kind = "isdir"
    /\ \E i \in DOMAIN returned : returned[i].entry.readerr = "eio"

\* C7: the output has as many entries as the header has defining lines, and the
\* entries of one name stand in the order of their lines.
C7_NoDedupStableOrder ==
    TableReturned =>
        LET E == ExpectedEntries(LastData)
        IN  /\ Len(syscalls) = Len(E)
            /\ Count(syscalls_str.text, "(") = Len(E)
            /\ \A i \in DOMAIN syscalls :
                  WithName(syscalls, syscalls[i][1]) = WithName(E, syscalls[i][1])

\* C7's case: one name defined on two lines, the greater number first, and a
\* smaller name defined on a later line
C7_Witness ==
    /\ TableReturned
    /\ \E i, j, k \in DOMAIN LastData :
          /\ i < j /\ j < k
          /\ DefinesSyscall(LastData[i]) /\ DefinesSyscall(LastData[j])
          /\ DefinesSyscall(LastData[k])
          /\ DefinedEntry(LastData[i])[1] = DefinedEntry(LastData[j])[1]
          /\ DefinedEntry(LastData[i])[2] > DefinedEntry(LastData[j])[2]
          /\ NameBefore(DefinedEntry(LastData[k])[1], DefinedEntry(LastData[i])[1])

\* C8: two calls on headers of the same content return the same string, whatever
\* was called in between.
C8_SameContentSameString ==
    \A i, j \in DOMAIN returned :
        returned[i].entry = returned[j].entry => returned[i].ret = returned[j].ret

\* C8's case: a call on a header, a call on another header, and a call on the
\* content of the first, each returning a table that is not empty
C8_Witness ==
    \E i, j, k \in DOMAIN returned :
        /\ i < j /\ j < k
        /\ returned[i].entry = returned[k].entry
        /\ returned[j].entry # returned[i].entry
        /\ returned[i].ret.returned /\ returned[i].ret.text # <<>>
        /\ returned[j].ret.returned /\ returned[j].ret.text # <<>>

\* a call has finished, on a header of one line that has the prefix once trimmed
OnePrefixedLine ==
    TableReturned /\ Len(LastData) = 1 /\ HasSyscallPrefix(Trimmed(LastData[1]))

\* C10 as claimed: a prefixed line yields an entry exactly when the rest of the
\* line is a name, whitespace and digits that are the last characters of the line.
C10_EntryIffDigitsEndTheLine ==
    OnePrefixedLine =>
        LET t == Trimmed(LastData[1])
        IN  /\ Len(syscalls) = 1 <=> AnchoredSplits(t) # {}
            /\ AnchoredSplits(t) # {} =>
                  syscalls = <<SplitEntry(t, CHOOSE x \in AnchoredSplits(t) : TRUE)>>

\* C10 as amended: a prefixed line yields an entry exactly when the prefix is
\* followed by a name, whitespace and digits, whatever follows the digits; the
\* name is the word after the prefix and the number the value of the digits.
C10_EntryIffPatternAtLineStart ==
    OnePrefixedLine =>
        LET t == Trimmed(LastData[1])
        IN  /\ Len(syscalls) = 1 <=> Splits(t) # {}
            /\ Len(syscalls) <= 1
            /\ Splits(t) # {} =>
                  /\ Cardinality(Splits(t)) = 1
                  /\ syscalls = <<SplitEntry(t, CHOOSE x \in Splits(t) : TRUE)>>
                  /\ syscalls[1][2] >= 0
                  /\ syscalls_str = StrValue(ExpectedText(syscalls))

\* C10's case: a define whose digits are followed by more characters yields an
\* entry, and so does a numeral with a leading zero
C10_Witness ==
    /\ OnePrefixedLine
    /\ Len(syscalls) = 1
    /\ Splits(Trimmed(LastData[1])) # {}
    /\ AnchoredSplits(Trimmed(LastData[1])) = {}

----------------------------------------------------------------------------
(* generate_syscall_command, rustvmm_gen.py:48-64, and generate_rust_code,     *)
(* syscall.py:35-55.                                                            *)

\* rustvmm_gen.py:22
MAP_RUST_ARCH == [arm64 |-> "aarch64", x86_64 |-> "x86_64", riscv |-> "riscv64"]

\* the values --arch is given: the kernel's names, and riscv64, which the help
\* text of rustvmm_gen.py:70 offers and the mapping does not hold
ArchChoices == DOMAIN MAP_RUST_ARCH \cup {"riscv64"}

\* the directory prepare_command returns, rustvmm_gen.py:45
SrcDir == <<<<"work">>, <<"linux">>>>

\* args.output_path
OutputPath == <<<<"out">>>>

\* os.path.dirname
Dirname(path) == SubSeq(path, 1, Len(path) - 1)

\* rustvmm_gen.py:52-54
HeaderPath(sd, a) ==
    Dirname(sd) \o <<<<a, "_headers">>, <<"include">>, <<"asm">>, <<"unistd_64.h">>>>

\* a mutant of OutputFileName: the file is named after the kernel's name of the arch
OutputFileNameUnmapped(map, a) == <<a, ".rs">>

\* the f-string of rustvmm_gen.py:61
OutputFileName(map, a) == <<map[a], ".rs">>

\* every name an output file could be given
OutputNames == ArchChoices \cup {MAP_RUST_ARCH[a] : a \in DOMAIN MAP_RUST_ARCH}

OutputFiles == {OutputPath \o <<<<n, ".rs">>>> : n \in OutputNames}

PipelinePaths ==
    {HeaderPath(SrcDir, a) : a \in OutputNames} \cup {OutputPath} \cup OutputFiles

\* the template of syscall.py:38-44 around the table, line by line
Code(table) ==
    <<<<"use std::collections::HashMap;">>,
      <<"pub(crate) fn make_syscall_table() -> HashMap<&'static str, i64> {">>,
      <<"    vec![">>,
      <<"        ">> \o table,
      <<"    ].into_iter().collect()">>,
      <<"}">>>>

\* the class of the exception open(path, "w") raises, or none: dir is the entry
\* of the directory, entry that of the path
OpenWrite(dir, entry) ==
    CASE entry.kind = "isdir"  -> "IsADirectoryError"
      [] entry.kind = "rodir"  -> "IsADirectoryError"
      [] entry.kind = "noperm" -> "PermissionError"
      [] entry.kind = "missing" /\ dir.kind = "rodir" -> "PermissionError"
      [] entry.kind = "missing" /\ dir.kind # "isdir" -> "FileNotFoundError"
      [] OTHER -> "none"

\* the classes of OSError, which the name IOError stands for
OSErrorClasses ==
    {"OSError", "FileNotFoundError", "PermissionError", "IsADirectoryError",
     "FileExistsError", "NoSpaceError"}

\* a mutant of EmitException: every failure is reported as a write error
EmitExceptionAllWrite(type) ==
    Exception("RuntimeError", "File write error: ", <<>>, ExcStr(type))

\* the except clauses of syscall.py:52-55; an exception of another class passes
EmitException(type) ==
    IF type = "CalledProcessError"
    THEN Exception("RuntimeError", "rustfmt formatting failed", <<>>, "")
    ELSE IF type \in OSErrorClasses
    THEN Exception("RuntimeError", "File write error: ", <<>>, ExcStr(type))
    ELSE Exception(type, "", <<>>, "")

\* what subprocess.run of syscall.py:50 raises with check=True: CalledProcessError
\* when rustfmt exits non-zero, an OSError when rustfmt cannot be started
RunRustfmt(outcome) ==
    CASE outcome = "exit0"    -> "none"
      [] outcome = "exit1"    -> "CalledProcessError"
      [] outcome = "nolaunch" -> "FileNotFoundError"

\* a mutant of NextStep: a step that raised makes the command start over
NextStepRetried(next, exc) == IF exc = NoException THEN next ELSE "start"

\* generate_syscall_command handles no exception: a step is followed by the next
\* one when it raised nothing, and the exception leaves the command otherwise
NextStep(next, exc) == IF exc = NoException THEN next ELSE "failed"

\* a step of the invocation, for the record: what ran, on which path, whether it
\* raised, and how it ended
Step(step, path, exc, how) == [step |-> step, path |-> path, ok |-> exc = NoException, how |-> how]

\* the header files prepare_command leaves behind
PipeLines ==
    {DefineLine(<<"a">>, <<"1">>), DefineLine(<<"B">>, <<"0">>), Prefix \o <<"b", "a", "d">>}

PipelineHeaders ==
    FailingFiles \cup {HeaderFile(d) : d \in SeqsUpTo(PipeLines, MaxPipeLines)}

\* what is at the output path and at the paths of the output files before the run
OutputStates ==
    {<<Missing, Missing>>, <<HeaderFile(<<>>), Missing>>}
    \cup {<<Entry(k, <<>>, "none"), f>> :
             k \in {"isdir", "rodir"},
             f \in {Missing, HeaderFile(<<<<"old">>>>), Entry("isdir", <<>>, "none")}}

Init ==
    /\ pc = "start"
    /\ arch \in ArchChoices
    /\ src_dir = <<>>
    /\ header_path = <<>>
    /\ output_file_path = <<>>
    /\ syscalls = <<>>
    /\ syscalls_str = NoValue
    /\ raised = NoException
    /\ \E o \in OutputStates :
          disk = [p \in PipelinePaths |->
                     IF p = OutputPath THEN o[1] ELSE IF p \in OutputFiles THEN o[2] ELSE Missing]
    /\ map_rust_arch = MAP_RUST_ARCH
    /\ trace = <<>>
    /\ stdout = <<>>
    /\ todo = <<>>
    /\ returned = <<>>

\* rustvmm_gen.py:49 and 25-45: the collaborators fail, or return the source
\* directory and leave some header, or none, where the command will look
PrepareCommand ==
    /\ pc = "start"
    /\ \/ /\ raised' = Exception("PrepareError", "", <<>>, "")
          /\ pc' = NextStep("parse", raised')
          /\ trace' = Append(trace, Step("prepare", <<>>, raised', "raised"))
          /\ UNCHANGED <<src_dir, disk, stdout>>
       \/ \E h \in PipelineHeaders :
          /\ src_dir' = SrcDir
          /\ disk' = [disk EXCEPT ![HeaderPath(SrcDir, arch)] = h]
          /\ stdout' = Append(stdout, [text |-> "Successfully installed kernel headers to ", path |-> <<>>])
          /\ pc' = NextStep("parse", NoException)
          /\ trace' = Append(trace, Step("prepare", <<>>, NoException, "returned"))
          /\ UNCHANGED raised
    /\ UNCHANGED <<arch, header_path, output_file_path, syscalls, syscalls_str,
                   map_rust_arch, todo, returned>>

\* rustvmm_gen.py:52-55 and syscall.py:10-22, 29-32: the header is opened and read
ParseStep ==
    /\ pc = "parse"
    /\ header_path' = HeaderPath(src_dir, arch)
    /\ LET r == ParseHeader(header_path', disk)
       IN  /\ syscalls' = r.list
           /\ raised' = r.exc
           /\ pc' = NextStep("serialize", r.exc)
           /\ trace' = Append(trace, Step("parse", header_path', r.exc, "read"))
    /\ UNCHANGED <<arch, src_dir, output_file_path, syscalls_str, disk, map_rust_arch,
                   stdout, todo, returned>>

\* syscall.py:24-27: the list is sorted and rendered, and the string returned
SerializeStep ==
    /\ pc = "serialize"
    /\ syscalls' = SortSyscalls(syscalls)
    /\ syscalls_str' = StrValue(Serialize(syscalls))
    /\ pc' = NextStep("mkdir", NoException)
    /\ trace' = Append(trace, Step("serialize", <<>>, NoException, "returned"))
    /\ UNCHANGED <<arch, src_dir, header_path, output_file_path, raised, disk,
                   map_rust_arch, stdout, todo, returned>>

\* rustvmm_gen.py:58: mkdir(parents=True, exist_ok=True)
MkdirStep ==
    /\ pc = "mkdir"
    /\ LET exc == IF disk[OutputPath].kind \in {"missing", "isdir", "rodir"}
                  THEN NoException
                  ELSE Exception("FileExistsError", ExcStr("FileExistsError"), OutputPath, "")
       IN  /\ raised' = exc
           /\ disk' = IF disk[OutputPath].kind = "missing"
                      THEN [disk EXCEPT ![OutputPath] = Entry("isdir", <<>>, "none")]
                      ELSE disk
           /\ pc' = NextStep("resolve", exc)
           /\ trace' = Append(trace, Step("mkdir", OutputPath, exc, "mkdir"))
    /\ UNCHANGED <<arch, src_dir, header_path, output_file_path, syscalls, syscalls_str,
                   map_rust_arch, stdout, todo, returned>>

\* rustvmm_gen.py:61: the name of the output file; a KeyError for an arch the
\* mapping does not hold
ResolveStep ==
    /\ pc = "resolve"
    /\ LET exc == IF arch \in DOMAIN map_rust_arch
                  THEN NoException
                  ELSE Exception("KeyError", arch, <<>>, "")
       IN  /\ raised' = exc
           /\ output_file_path' =
                  IF exc = NoException
                  THEN OutputPath \o <<OutputFileName(map_rust_arch, arch)>>
                  ELSE output_file_path
           /\ pc' = NextStep("write", exc)
           /\ trace' = Append(trace, Step("resolve", <<>>, exc, "lookup"))
    /\ UNCHANGED <<arch, src_dir, header_path, syscalls, syscalls_str, disk,
                   map_rust_arch, stdout, todo, returned>>

\* syscall.py:37-47: the file is opened for writing, which creates or empties it,
\* and the code is written; the device may fill up before the last line
WriteStep ==
    /\ pc = "write"
    /\ stdout' = Append(stdout, [text |-> "Generating to: ", path |-> output_file_path])
    /\ LET code == Code(syscalls_str.text)
           opened == OpenWrite(disk[OutputPath], disk[output_file_path])
       IN  \/ /\ opened # "none"
              /\ raised' = EmitException(opened)
              /\ trace' = Append(trace, Step("write", output_file_path, raised', opened))
              /\ UNCHANGED disk
           \/ /\ opened = "none"
              /\ raised' = NoException
              /\ disk' = [disk EXCEPT ![output_file_path] = Entry("file", code, "none")]
              /\ trace' = Append(trace, Step("write", output_file_path, raised', "written"))
           \/ /\ opened = "none"
              /\ raised' = EmitException("NoSpaceError")
              /\ \E k \in 0..(Len(code) - 1) :
                    disk' = [disk EXCEPT ![output_file_path] =
                                Entry("file", SubSeq(code, 1, k), "none")]
              /\ trace' = Append(trace, Step("write", output_file_path, raised', "NoSpaceError"))
    /\ pc' = NextStep("format", raised')
    /\ UNCHANGED <<arch, src_dir, header_path, output_file_path, syscalls, syscalls_str,
                   map_rust_arch, todo, returned>>

\* syscall.py:50-55: rustfmt runs on the file. rustfmt is a program of its own: it
\* rewrites the file when it exits with 0 and leaves it as it is otherwise
FormatStep ==
    /\ pc = "format"
    /\ \E outcome \in {"exit0", "exit1", "nolaunch"} :
          LET exc == IF RunRustfmt(outcome) = "none"
                     THEN NoException
                     ELSE EmitException(RunRustfmt(outcome))
          IN  /\ raised' = exc
              /\ disk' = IF outcome = "exit0"
                         THEN [disk EXCEPT ![output_file_path].fmt = TRUE]
                         ELSE disk
              /\ stdout' = IF exc = NoException
                           THEN Append(stdout, [text |-> "Generation succeeded: ",
                                                path |-> output_file_path])
                           ELSE stdout
              /\ pc' = NextStep("done", exc)
              /\ trace' = Append(trace, Step("format", output_file_path, exc, outcome))
    /\ UNCHANGED <<arch, src_dir, header_path, output_file_path, syscalls, syscalls_str,
                   map_rust_arch, todo, returned>>

Next ==
    \/ PrepareCommand
    \/ ParseStep
    \/ SerializeStep
    \/ MkdirStep
    \/ ResolveStep
    \/ WriteStep
    \/ FormatStep

Spec == Init /\ [][Next]_vars

----------------------------------------------------------------------------
(* The claims about generate_rust_code and generate_syscall_command, checked     *)
(* under Spec.                                                                    *)

\* the step ran and raised nothing
Ran(tr, step) == \E i \in DOMAIN tr : tr[i].step = step /\ tr[i].ok

\* the step ran and raised
Failed(tr, step) == \E i \in DOMAIN tr : tr[i].step = step /\ ~tr[i].ok

\* rustfmt ran and exited non-zero
FormatterExitedNonZero == \E i \in DOMAIN trace : trace[i].step = "format" /\ trace[i].how = "exit1"

IsWriteError(e) == e.type = "RuntimeError" /\ e.text = "File write error: "

IsFormatError(e) == e.type = "RuntimeError" /\ e.text = "rustfmt formatting failed"

\* the file generate_rust_code writes around the table, before rustfmt
UnformattedFile(table) ==
    [kind |-> "file",
     data |-> <<<<"use std::collections::HashMap;">>,
                <<"pub(crate) fn make_syscall_table() -> HashMap<&'static str, i64> {">>,
                <<"    vec![">>,
                <<"        ">> \o table,
                <<"    ].into_iter().collect()">>,
                <<"}">>>>,
     readerr |-> "none",
     fmt |-> FALSE]

\* C4: when the file has been written and rustfmt then exits non-zero, the error
\* is rustfmt formatting failed and the file is on disk as it was written.
C4_FormatFailureKeepsFile ==
    (Ran(trace, "write") /\ FormatterExitedNonZero) =>
        /\ pc = "failed"
        /\ raised = Exception("RuntimeError", "rustfmt formatting failed", <<>>, "")
        /\ disk[output_file_path] = UnformattedFile(syscalls_str.text)

\* C4's case: a table that is not empty was written and rustfmt exited non-zero
C4_Witness ==
    /\ Ran(trace, "write")
    /\ FormatterExitedNonZero
    /\ syscalls_str.text # <<>>

\* C5: once generate_rust_code has run, the error is the write error exactly when
\* the file could not be created or written, and the formatting error exactly when
\* rustfmt exited non-zero.
C5_FailuresClassified ==
    (Ran(trace, "write") \/ Failed(trace, "write")) =>
        /\ IsWriteError(raised) <=> Failed(trace, "write")
        /\ IsFormatError(raised) <=> FormatterExitedNonZero

\* Rust's name of an architecture of the kernel
RustName(a) ==
    CASE a = "arm64" -> "aarch64" [] a = "x86_64" -> "x86_64" [] a = "riscv" -> "riscv64"

\* C6: the header is read at <arch>_headers/include/asm/unistd_64.h beside the
\* source directory, under the kernel's name of the arch; the file is written at
\* <Rust's name>.rs under the output path; the mapping stays as it is.
C6_HeaderByKernelNameFileByRustName ==
    /\ map_rust_arch = [arm64 |-> "aarch64", x86_64 |-> "x86_64", riscv |-> "riscv64"]
    /\ \A i \in DOMAIN trace :
          /\ trace[i].step = "parse" =>
                /\ trace[i].path = <<<<"work">>, <<arch, "_headers">>, <<"include">>,
                                     <<"asm">>, <<"unistd_64.h">>>>
                /\ header_path = trace[i].path
          /\ trace[i].step = "write" =>
                /\ arch \in {"arm64", "x86_64", "riscv"}
                /\ trace[i].path = <<<<"out">>, <<RustName(arch), ".rs">>>>
                /\ output_file_path = trace[i].path
                /\ trace[i].ok => disk[trace[i].path].kind = "file"
                /\ \A p \in OutputFiles \ {trace[i].path} : disk[p].fmt = FALSE
                /\ \A p, q \in OutputFiles \ {trace[i].path} : disk[p] = disk[q]

\* C6's case: the command has finished for riscv, whose Rust name differs
C6_Witness ==
    /\ pc = "done"
    /\ arch = "riscv"
    /\ disk[<<<<"out">>, <<"riscv64", ".rs">>>>].fmt

\* the order of the steps of one invocation
StepOrder == <<"prepare", "parse", "serialize", "mkdir", "resolve", "write", "format">>

\* the steps ran in order, none twice, and each but the last raised nothing
InOrder(tr) ==
    /\ Len(tr) <= Len(StepOrder)
    /\ \A i \in DOMAIN tr : tr[i].step = StepOrder[i] /\ (i < Len(tr) => tr[i].ok)

\* C9: the steps of an invocation run in the order parse, serialize, write,
\* format, each at most once; the output directory and the output files change
\* only after the header was parsed and the table serialized; rustfmt runs only
\* after the file was written; no step runs after a step that raised, and the
\* exception is what the command ends with.
C9_StrictLinearPipeline ==
    [][/\ InOrder(trace')
       /\ trace # <<>> => trace[Len(trace)].ok
       /\ (\E p \in OutputFiles \cup {OutputPath} : disk'[p] # disk[p]) =>
              Ran(trace, "parse") /\ Ran(trace, "serialize")
       /\ (Ran(trace', "format") \/ Failed(trace', "format")) => Ran(trace, "write")
       /\ ~trace'[Len(trace')].ok => pc' = "failed" /\ raised' # NoException
       /\ pc' \in {"failed", "done"} <=>
              (~trace'[Len(trace')].ok \/ Ran(trace', "format"))
      ]_vars

\* C9's case: the steps ran up to the write, which raised
C9_Witness ==
    /\ pc = "failed"
    /\ Len(trace) = 6
    /\ Failed(trace, "write")

====
